---- MODULE Spec2Model ----
(***************************************************************************)
(* A model of livestreamer-curses (src/src/livestreamer_curses/main.py):   *)
(* the stream registry (StreamList.streams / filtered_streams), the        *)
(* process table (ProcessList), the pad cursor and the key dispatch of     *)
(* StreamList.run.                                                         *)
(*                                                                         *)
(* Python objects are modelled by identity: a stream dict is an object id  *)
(* (oid) and `rec` is the heap mapping each live oid to the dict's value.  *)
(* `streams` and `filtered_streams` are lists of oids; list.remove and     *)
(* list.index compare dicts by value, as Python does.  Strings are tuples  *)
(* of one-character strings, so that lower(), split('/') and the substring *)
(* test `in` are computed and not assumed.                                 *)
(***************************************************************************)
EXTENDS Integers, Sequences, FiniteSets, TLC

VARIABLES
    streams,           \* self.streams: list of stream objects (oids)
    filtered_streams,  \* self.filtered_streams: list of stream objects (oids)
    aliased,           \* TRUE when filtered_streams is the very list object streams
    rec,               \* heap: oid -> dict value of the stream
    max_id,            \* self.max_id
    filter,            \* self.filter: a string, or None
    no_streams,        \* self.no_streams
    no_stream_shown,   \* self.no_stream_shown
    q,                 \* self.q.q: dict id -> child process ("running" / "exited")
    store,             \* self.store['streams']: the persisted snapshot (list of dict values)
    now,               \* int(time())
    current_pad,       \* self.current_pad
    row,               \* self.pads['streams'].getyx()[0]
    offsets,           \* self.offsets
    padLines,          \* self.pads['streams'].getmaxyx()[0]
    pad_h,             \* self.pad_h
    got_g,             \* self.got_g
    footer,            \* the kind of message last written by set_footer / a prompt
    pc,                \* "reap": at the top of the loop of run(); "select": in select.select;
                       \* "quit": run() returned; "crashed": an exception left run()
    lastOp,            \* history: the operation performed by the last step and its outcome
    issued             \* history: every id held by a loaded record or assigned by add_stream

vars == <<streams, filtered_streams, aliased, rec, max_id, filter, no_streams,
          no_stream_shown, q, store, now, current_pad, row, offsets, padLines,
          pad_h, got_g, footer, pc, lastOp, issued>>

-----------------------------------------------------------------------------
(* Bounds of the model *)

\* len(self.streams) never exceeds MaxStreams (add is disabled beyond it)
MaxStreams == 3
\* self.max_id never exceeds MaxId (add is disabled beyond it)
MaxId == 3
\* ProcessList(f, max_size): the capacity of the process table, scaled down from the default
max_size == 2
\* the clock at start, the seconds one Tick adds, and the last clock value
Epoch == 100
TickStep == 30
MaxTime == 160
\* a direct call of bump_stream is disabled once seen has reached MaxSeen
MaxSeen == 6

(* Program constants *)

\* bump_stream: `t - stream['last_seen'] < 60*1`
ThrottleWindow == 60
\* init_help: help_pad_length
help_pad_length == 25

\* DEFAULT_RESOLUTION_HARD
DEFAULT_RESOLUTION_HARD == <<"480p">>
\* self.filter = None (clear_filter); no character is "None"
None == <<"None">>

-----------------------------------------------------------------------------
(* Strings *)

LowerChar(c) ==
    IF c = "A" THEN "a" ELSE IF c = "B" THEN "b" ELSE IF c = "C" THEN "c"
    ELSE IF c = "Z" THEN "z" ELSE c
\* str.lower()
Lower(s) == [i \in 1..Len(s) |-> LowerChar(s[i])]
\* `sub in s` for two strings
IsIn(sub, s) ==
    \E k \in 0..(Len(s) - Len(sub)) : \A i \in 1..Len(sub) : s[k + i] = sub[i]
\* url.split('/')[-1]
LastSegment(url) ==
    LET slashes == {i \in 1..Len(url) : url[i] = "/"}
        last == IF slashes = {} THEN 0 ELSE CHOOSE i \in slashes : \A j \in slashes : j <= i
    IN SubSeq(url, last + 1, Len(url))

Min(a, b) == IF a < b THEN a ELSE b
Max(a, b) == IF a > b THEN a ELSE b
Range(s) == {s[i] : i \in DOMAIN s}

(* Inputs *)

U1 == <<"a", "/", "B">>
U2 == <<"c", "/", "B">>
U3 == <<"A", "/", "c">>
\* what the user may type at the 'New stream URL' prompt
NewUrls == {<<>>, U1, U2, U3}
\* what the user may type at the 'Filter:' prompt
FilterTexts == {<<>>, <<"A">>, <<"b">>, <<"z">>}
\* what the user may type at the edit prompts
EditValues == [name |-> {<<>>, <<"z">>}, url |-> {<<"z">>}, res |-> {<<"720p">>}]

RecA == [id |-> 1, name |-> <<"Z">>, url |-> U1, res |-> <<"480p">>, seen |-> 3, last_seen |-> 10]
RecB == [id |-> 2, name |-> <<"B">>, url |-> U2, res |-> <<"480p">>, seen |-> 5, last_seen |-> 40]
\* what shelve may hold at start: no 'streams' key, or a list saved by an earlier session
InitStores == {<<>>, <<RecA, RecB>>}
\* LINES of the terminal, at start and after a SIGWINCH: pad_h is 1, 2, 3 or 27
TermLines == {4, 5, 6, 30}

-----------------------------------------------------------------------------
(* Python lists of dicts *)

\* list.index(v): the first position holding a dict equal to v, 0 when there is none
IndexOf(list, v, heap) ==
    LET hits == {i \in 1..Len(list) : heap[list[i]] = v}
    IN IF hits = {} THEN 0 ELSE CHOOSE i \in hits : \A j \in hits : i <= j
RemoveAt(list, i) == SubSeq(list, 1, i - 1) \o SubSeq(list, i + 1, Len(list))
\* list.remove(v), for a v that is in the list
ListRemove(list, v, heap) == RemoveAt(list, IndexOf(list, v, heap))
\* the value pickled by `self.store['streams'] = self.streams`
Snapshot(list, heap) == [i \in 1..Len(list) |-> heap[list[i]]]
\* the dicts still referenced by one of the two lists
Gc(heap, l1, l2) == [o \in (Range(l1) \cup Range(l2)) \cap DOMAIN heap |-> heap[o]]
\* a fresh object
NewOid(heap) ==
    CHOOSE o \in 1..(Cardinality(DOMAIN heap) + 1) :
        o \notin DOMAIN heap /\ \A p \in 1..(o - 1) : p \in DOMAIN heap

\* sorted(list, key=lambda s: s['seen'], reverse=True): stable, descending
InsertBySeen(sorted, o, heap) ==
    LET pos == Cardinality({i \in 1..Len(sorted) : heap[sorted[i]].seen >= heap[o].seen})
    IN SubSeq(sorted, 1, pos) \o <<o>> \o SubSeq(sorted, pos + 1, Len(sorted))
RECURSIVE SortPrefix(_, _, _)
SortPrefix(list, n, heap) ==
    IF n = 0 THEN <<>> ELSE InsertBySeen(SortPrefix(list, n - 1, heap), list[n], heap)
SeenSorted(list, heap) == SortPrefix(list, Len(list), heap)

-----------------------------------------------------------------------------
(* StreamList: the registry *)

\* find_stream looking the stream up by the name derived from sel
FindStreamByName(sel, key) ==
    LET hits == {i \in 1..Len(streams) : rec[streams[i]].name = LastSegment(sel)}
    IN IF hits = {} THEN 0 ELSE streams[CHOOSE i \in hits : \A j \in hits : i <= j]
\* find_stream(sel, key): the first stream with s[key] == sel, 0 for None
FindStream(sel, key) ==
    LET hits == {i \in 1..Len(streams) : rec[streams[i]][key] = sel}
    IN IF hits = {} THEN 0 ELSE streams[CHOOSE i \in hits : \A j \in hits : i <= j]

\* bump_stream: the early return
BumpSuppressed(stream, t, throttle) == throttle /\ t - stream.last_seen < ThrottleWindow
\* bump_stream without the early return
BumpStreamAlways(stream, t, throttle) ==
    [stream EXCEPT !.seen = @ + 1, !.last_seen = t]
\* bump_stream: the dict after the call
BumpStream(stream, t, throttle) ==
    IF BumpSuppressed(stream, t, throttle)
    THEN stream
    ELSE [stream EXCEPT !.seen = @ + 1, !.last_seen = t]

\* the filter test without .lower() on the stream's fields
FilterMatchesCaseSensitive(s, flt) == IsIn(flt, s.name) \/ IsIn(flt, s.url)
\* `self.filter in s['name'].lower() or self.filter in s['url'].lower()`
FilterMatches(s, flt) == IsIn(flt, Lower(s.name)) \/ IsIn(flt, Lower(s.url))
\* filter_streams: the new filtered_streams for the text typed at the prompt
FilterStreams(text) ==
    LET flt == Lower(text)
        matching == SelectSeq(streams, LAMBDA o : FilterMatches(rec[o], flt))
    IN SeenSorted(matching, rec)

-----------------------------------------------------------------------------
(* ProcessList *)

EmptyTable == [i \in {} |-> "running"]
\* put without the has_key test
PutNoDuplicateCheck(table, id, spawnOk) ==
    IF Cardinality(DOMAIN table) < max_size
    THEN IF ~spawnOk
         THEN [q |-> table, exc |-> "OSError"]
         ELSE [q |-> [i \in DOMAIN table \cup {id} |-> IF i = id THEN "running" ELSE table[i]],
               exc |-> "none"]
    ELSE [q |-> table, exc |-> "QueueFull"]
\* put with `len(self.q) <= self.max_size`
PutOffByOne(table, id, spawnOk) ==
    IF Cardinality(DOMAIN table) <= max_size
    THEN IF id \in DOMAIN table
         THEN [q |-> table, exc |-> "QueueDuplicate"]
         ELSE IF ~spawnOk
              THEN [q |-> table, exc |-> "OSError"]
              ELSE [q |-> [i \in DOMAIN table \cup {id} |-> IF i = id THEN "running" ELSE table[i]],
                    exc |-> "none"]
    ELSE [q |-> table, exc |-> "QueueFull"]
\* put(id, *args): the table after the call and the exception raised ("none": no exception).
\* spawnOk = FALSE: self.call (Popen) raises OSError
Put(table, id, spawnOk) ==
    IF Cardinality(DOMAIN table) < max_size
    THEN IF id \in DOMAIN table
         THEN [q |-> table, exc |-> "QueueDuplicate"]
         ELSE IF ~spawnOk
              THEN [q |-> table, exc |-> "OSError"]
              ELSE [q |-> [i \in DOMAIN table \cup {id} |-> IF i = id THEN "running" ELSE table[i]],
                    exc |-> "none"]
    ELSE [q |-> table, exc |-> "QueueFull"]
\* get_finished with the poll() test inverted
GetFinishedInverted(table) ==
    LET indices == {i \in DOMAIN table : table[i] = "running"}
    IN [indices |-> indices, q |-> [i \in DOMAIN table \ indices |-> table[i]]]
\* get_finished(): the ids returned and the table after the call
GetFinished(table) ==
    LET indices == {i \in DOMAIN table : table[i] # "running"}
    IN [indices |-> indices, q |-> [i \in DOMAIN table \ indices |-> table[i]]]
\* terminate_process(id): p is FALSE when None is returned
TerminateProcess(table, id) ==
    [p |-> id \in DOMAIN table, q |-> [i \in DOMAIN table \ {id} |-> table[i]]]

\* terminate that leaves the table as it is
TerminateNothing(table) == table
\* terminate(): every process is sent terminate(), then self.q = {}
Terminate(table) == EmptyTable

-----------------------------------------------------------------------------
(* Pads *)

\* redraw_stream_footer, with cur the cursor row of the current pad
RedrawStreamFooter(nss, cur, flt, ftr) ==
    IF nss THEN [footer |-> ftr, exc |-> "none"]
    ELSE IF cur < Len(flt) THEN [footer |-> "Info", exc |-> "none"]
    ELSE [footer |-> ftr, exc |-> "IndexError"]

\* move of the streams pad, by one line or absolute, with the guards and the scrolling
\* given as parameters: bottom / top: the tests `row < len - 1` and `row > 0` are made;
\* slack: the 2 of `offset + pad_h - 2`; scroll: an absolute move adjusts the offset
MoveStreamsWith(direction, absolute, r, offs, nflt, plines, ph, bottom, top, slack, scroll) ==
    LET offset == offs.streams
    IN IF absolute /\ direction >= 0 /\ direction < plines
       THEN [row |-> direction,
             offsets |-> [offs EXCEPT !.streams =
                 IF ~scroll THEN offset
                 ELSE IF direction < offset THEN direction
                 ELSE IF direction > offset + ph - slack THEN direction - ph + slack
                 ELSE offset]]
       ELSE IF direction = -1 /\ (~top \/ r > 0)
       THEN [row |-> r - 1,
             offsets |-> [offs EXCEPT !.streams = IF r = offset THEN offset - 1 ELSE offset]]
       ELSE IF direction = 1 /\ (~bottom \/ r < nflt - 1)
       THEN [row |-> r + 1,
             offsets |-> [offs EXCEPT !.streams =
                 IF r = offset + ph - slack THEN offset + 1 ELSE offset]]
       ELSE [row |-> r, offsets |-> offs]
\* move without the test `row < len(self.filtered_streams)-1`
MovePadNoBottomGuard(direction, absolute, pad_name, r, offs, nflt, plines, ph) ==
    MoveStreamsWith(direction, absolute, r, offs, nflt, plines, ph, FALSE, TRUE, 2, TRUE)
\* move without the test `row > 0`
MovePadNoTopGuard(direction, absolute, pad_name, r, offs, nflt, plines, ph) ==
    MoveStreamsWith(direction, absolute, r, offs, nflt, plines, ph, TRUE, FALSE, 2, TRUE)
\* move whose absolute jump leaves the offset alone
MovePadKeepOffset(direction, absolute, pad_name, r, offs, nflt, plines, ph) ==
    MoveStreamsWith(direction, absolute, r, offs, nflt, plines, ph, TRUE, TRUE, 2, FALSE)
\* move that scrolls one line late: `offset + pad_h - 1`
MovePadScrollLate(direction, absolute, pad_name, r, offs, nflt, plines, ph) ==
    MoveStreamsWith(direction, absolute, r, offs, nflt, plines, ph, TRUE, TRUE, 1, TRUE)

\* move: the new cursor row and offsets of pad pad_name (r is that pad's cursor row)
MovePad(direction, absolute, pad_name, r, offs, nflt, plines, ph) ==
    IF pad_name = "help"
    THEN LET offset == offs.help
             new_offset ==
                 IF absolute
                 THEN IF direction > 0 THEN plines - ph + 1 ELSE 0
                 ELSE IF direction > 0 THEN Min(plines - ph + 1, offset + ph)
                 ELSE IF offset > 0 THEN Max(0, offset - ph)
                 ELSE offset
         IN [row |-> r, offsets |-> [offs EXCEPT !.help = new_offset]]
    ELSE LET offset == offs.streams
         IN IF absolute /\ direction >= 0 /\ direction < plines
            THEN [row |-> direction,
                  offsets |-> [offs EXCEPT !.streams =
                      IF direction < offset THEN direction
                      ELSE IF direction > offset + ph - 2 THEN direction - ph + 2
                      ELSE offset]]
            ELSE IF direction = -1 /\ r > 0
            THEN [row |-> r - 1,
                  offsets |-> [offs EXCEPT !.streams = IF r = offset THEN offset - 1 ELSE offset]]
            ELSE IF direction = 1 /\ r < nflt - 1
            THEN [row |-> r + 1,
                  offsets |-> [offs EXCEPT !.streams = IF r = offset + ph - 2 THEN offset + 1 ELSE offset]]
            ELSE [row |-> r, offsets |-> offs]

\* the cursor row of the help pad: init_help leaves it on the last line it wrote
HelpRow == help_pad_length - 1

\* refresh_current_pad: pad.refresh(offset, 0, 2, pad_x, pad_h, pad_w) returns ERR, and the
\* binding raises curses.error, when the screen rectangle is empty (pad_h < 2) or the
\* offset lies beyond the last line of the pad (plines: the lines of the current pad)
RefreshCurrentPad(offset, plines, ph) ==
    IF ph < 2 \/ offset >= plines THEN "curses.error" ELSE "none"

\* move(direction, absolute, pad_name) run on the view v =
\* [row, offsets, flt, padLines, no_streams, no_stream_shown, footer, current_pad, pad_h]
Move(direction, absolute, pad_name, v) ==
    IF pad_name = "streams" /\ v.no_streams
    THEN [row |-> v.row, offsets |-> v.offsets, footer |-> v.footer, exc |-> "none"]
    ELSE LET m == MovePad(direction, absolute, pad_name,
                          IF pad_name = "streams" THEN v.row ELSE HelpRow, v.offsets,
                          Len(v.flt),
                          IF pad_name = "streams" THEN v.padLines ELSE help_pad_length,
                          v.pad_h)
             newrow == IF pad_name = "streams" THEN m.row ELSE v.row
             \* redraw_stream_footer reads the cursor row of the current pad
             cur == IF v.current_pad = "streams" THEN newrow ELSE HelpRow
             f1 == IF pad_name = "streams"
                   THEN RedrawStreamFooter(v.no_stream_shown, cur, v.flt, v.footer)
                   ELSE [footer |-> v.footer, exc |-> "none"]
             rf == RefreshCurrentPad(m.offsets[v.current_pad],
                                     IF v.current_pad = "streams" THEN v.padLines
                                     ELSE help_pad_length,
                                     v.pad_h)
             f2 == RedrawStreamFooter(v.no_stream_shown, cur, v.flt, f1.footer)
         IN [row |-> newrow, offsets |-> m.offsets,
             footer |-> IF f1.exc = "none" /\ rf = "none" THEN f2.footer ELSE f1.footer,
             exc |-> IF f1.exc # "none" THEN f1.exc ELSE IF rf # "none" THEN rf ELSE f2.exc]

\* the view the handlers start from
CurView ==
    [row |-> row, offsets |-> offsets, flt |-> filtered_streams, padLines |-> padLines,
     no_streams |-> no_streams, no_stream_shown |-> no_stream_shown, footer |-> footer,
     current_pad |-> current_pad, pad_h |-> pad_h]

\* show_streams: the footer it leaves and the exception it raises
ShowStreams(ns, nss, r, flt, ftr) ==
    IF ns THEN [footer |-> "Ready", exc |-> "none"]
    ELSE RedrawStreamFooter(nss, r, flt, ftr)

\* redraw_current_line, with r the cursor row of the current pad: the exception it raises
RedrawCurrentLine(ns, r, flt) ==
    IF ns THEN "none" ELSE IF r < Len(flt) THEN "none" ELSE "IndexError"

\* the record of a step: the operation, the stream id (or row) it was about, its outcome,
\* the exception that left the handler, the text typed, the ids returned
Op(op, num, result, exc, arg, ret) ==
    [op |-> op, num |-> num, result |-> result, exc |-> exc, arg |-> arg, ret |-> ret]
\* after a handler: back to the top of the loop, or out of run() with the exception
Pc(exc) == IF exc = "none" THEN "reap" ELSE "crashed"

\* where the loop stands while a handler waits in prompt_input (getstr) or in
\* prompt_confirmation (getch): both read the keyboard with no timeout
PromptOf == [filter |-> "prompt_filter", add |-> "prompt_add", delete |-> "prompt_delete",
             reset |-> "prompt_reset", name |-> "prompt_name", url |-> "prompt_url",
             res |-> "prompt_res"]
Prompts == {PromptOf[kind] : kind \in DOMAIN PromptOf}

-----------------------------------------------------------------------------
(* StreamList.__init__, init and the first show_streams of run *)

Init ==
    \E st \in InitStores, lines \in TermLines :
        LET heap == [i \in 1..Len(st) |-> st[i]]
            loaded == SeenSorted([i \in 1..Len(st) |-> i], heap)
            ids == {st[i].id : i \in 1..Len(st)}
        IN /\ streams = loaded
           /\ filtered_streams = loaded
           /\ aliased = FALSE
           /\ rec = heap
           /\ max_id = IF ids = {} THEN 0 ELSE CHOOSE m \in ids : \A j \in ids : j <= m
           /\ filter = <<>>
           /\ no_streams = (loaded = <<>>)
           /\ no_stream_shown = (loaded = <<>>)
           /\ q = EmptyTable
           /\ store = st
           /\ now = Epoch
           /\ current_pad = "streams"
           /\ row = 0
           /\ offsets = [streams |-> 0, help |-> 0]
           /\ padLines = Max(1, Len(loaded))
           /\ pad_h = lines - 3
           /\ got_g = FALSE
           /\ footer = IF loaded = <<>> THEN "Ready" ELSE "Info"
           \* run() starts with show_streams, whose refresh_current_pad may raise
           /\ pc = Pc(RefreshCurrentPad(0, Max(1, Len(loaded)), lines - 3))
           /\ lastOp = Op("init", 0, "none", RefreshCurrentPad(0, Max(1, Len(loaded)), lines - 3),
                          <<>>, {})
           /\ issued = ids

-----------------------------------------------------------------------------
(* StreamList.run: one iteration is check_stopped_streams, select, one key *)

\* check_stopped_streams, at the top of every iteration
CheckStoppedStreams ==
    /\ pc = "reap"
    /\ LET g == GetFinished(q)
           shown == \E f \in g.indices, i \in 1..Len(streams) :
                        /\ IndexOf(filtered_streams, rec[streams[i]], rec) # 0
                        /\ f = rec[streams[i]].id
       IN /\ q' = g.q
          /\ footer' = IF shown THEN "Stopped" ELSE footer
          /\ lastOp' = Op("reap", 0, "none", "none", <<>>, g.indices)
    /\ pc' = "select"
    /\ UNCHANGED <<streams, filtered_streams, aliased, rec, max_id, filter, no_streams,
                   no_stream_shown, store, now, current_pad, row, offsets, padLines,
                   pad_h, got_g, issued>>

\* select.select(souts, [], [], 1) returns with stdin not ready
SelectTimeout ==
    /\ pc = "select"
    /\ pc' = "reap"
    /\ lastOp' = Op("timeout", 0, "none", "none", <<>>, {})
    /\ UNCHANGED <<streams, filtered_streams, aliased, rec, max_id, filter, no_streams,
                   no_stream_shown, q, store, now, current_pad, row, offsets, padLines,
                   pad_h, got_g, footer, issued>>

\* keys up / k and down / j: move(-1) and move(1)
KeyMove(direction) ==
    /\ pc = "select"
    /\ LET m == Move(direction, FALSE, current_pad, CurView)
       IN /\ row' = m.row
          /\ offsets' = m.offsets
          /\ footer' = m.footer
          /\ pc' = Pc(m.exc)
          /\ lastOp' = Op("move", direction,
                          IF m.row = row /\ m.offsets = offsets THEN "stayed" ELSE "moved",
                          m.exc, <<>>, {})
    /\ UNCHANGED <<streams, filtered_streams, aliased, rec, max_id, filter, no_streams,
                   no_stream_shown, q, store, now, current_pad, padLines, pad_h, got_g,
                   issued>>

\* key g: the second of two jumps to the top
KeySmallG ==
    /\ pc = "select"
    /\ IF got_g
       THEN LET m == Move(0, TRUE, current_pad, CurView)
            IN /\ row' = m.row
               /\ offsets' = m.offsets
               /\ footer' = m.footer
               /\ pc' = Pc(m.exc)
               /\ got_g' = (m.exc # "none")
               /\ lastOp' = Op("gg", row, "none", m.exc, <<>>, {})
       ELSE /\ got_g' = TRUE
            /\ pc' = "reap"
            /\ lastOp' = Op("g", 0, "none", "none", <<>>, {})
            /\ UNCHANGED <<row, offsets, footer>>
    /\ UNCHANGED <<streams, filtered_streams, aliased, rec, max_id, filter, no_streams,
                   no_stream_shown, q, store, now, current_pad, padLines, pad_h, issued>>

\* key G: move(len(self.filtered_streams)-1, absolute=True)
KeyBigG ==
    /\ pc = "select"
    /\ LET m == Move(Len(filtered_streams) - 1, TRUE, current_pad, CurView)
       IN /\ row' = m.row
          /\ offsets' = m.offsets
          /\ footer' = m.footer
          /\ pc' = Pc(m.exc)
          /\ lastOp' = Op("G", Len(filtered_streams) - 1, "none", m.exc, <<>>, {})
    /\ UNCHANGED <<streams, filtered_streams, aliased, rec, max_id, filter, no_streams,
                   no_stream_shown, q, store, now, current_pad, padLines, pad_h, got_g,
                   issued>>

\* key f in the streams pad: filter_streams, with text typed at the prompt
KeyFilter(text) ==
    /\ pc \in {"select", PromptOf.filter}
    /\ current_pad = "streams"
    /\ LET flt == FilterStreams(text)
           nss == Len(flt) = 0
           f == RedrawStreamFooter(nss, 0, flt, "Blank")
       IN /\ filter' = Lower(text)
          /\ filtered_streams' = flt
          /\ aliased' = FALSE
          /\ rec' = Gc(rec, streams, flt)
          /\ no_stream_shown' = nss
          /\ padLines' = Max(1, Len(flt))
          /\ row' = 0
          /\ offsets' = [offsets EXCEPT !.streams = 0]
          /\ footer' = f.footer
          /\ pc' = Pc(f.exc)
          /\ lastOp' = Op("filter", Len(flt), "none", f.exc, text, {})
    /\ UNCHANGED <<streams, max_id, no_streams, q, store, now, current_pad, pad_h, got_g,
                   issued>>

\* key F in the streams pad: clear_filter
KeyClearFilter ==
    /\ pc = "select"
    /\ current_pad = "streams"
    /\ LET f == RedrawStreamFooter(no_streams, 0, streams, footer)
       IN /\ filter' = None
          /\ filtered_streams' = streams
          /\ aliased' = TRUE
          /\ rec' = Gc(rec, streams, streams)
          /\ no_stream_shown' = no_streams
          /\ padLines' = Max(1, Len(streams))
          /\ row' = 0
          /\ offsets' = [offsets EXCEPT !.streams = 0]
          /\ footer' = f.footer
          /\ pc' = Pc(f.exc)
          /\ lastOp' = Op("clear_filter", Len(streams), "none", f.exc, <<>>, {})
    /\ UNCHANGED <<streams, max_id, no_streams, q, store, now, current_pad, pad_h, got_g,
                   issued>>

\* key h or ? in the streams pad: show_help
KeyHelp ==
    /\ pc = "select"
    /\ current_pad = "streams"
    /\ current_pad' = "help"
    /\ footer' = "Help"
    /\ pc' = "reap"
    /\ lastOp' = Op("help", 0, "none", "none", <<>>, {})
    /\ UNCHANGED <<streams, filtered_streams, aliased, rec, max_id, filter, no_streams,
                   no_stream_shown, q, store, now, row, offsets, padLines, pad_h, got_g,
                   issued>>

\* key q or ESC in the help pad: show_streams
KeyLeaveHelp ==
    /\ pc = "select"
    /\ current_pad = "help"
    /\ LET sh == ShowStreams(no_streams, no_stream_shown, row, filtered_streams, footer)
       IN /\ current_pad' = "streams"
          /\ footer' = sh.footer
          /\ pc' = Pc(sh.exc)
          /\ lastOp' = Op("leave_help", 0, "none", sh.exc, <<>>, {})
    /\ UNCHANGED <<streams, filtered_streams, aliased, rec, max_id, filter, no_streams,
                   no_stream_shown, q, store, now, row, offsets, padLines, pad_h, got_g,
                   issued>>

\* key q in the streams pad: self.q.terminate() and return
KeyQuit ==
    /\ pc = "select"
    /\ current_pad = "streams"
    /\ q' = Terminate(q)
    /\ pc' = "quit"
    /\ lastOp' = Op("quit", 0, "none", "none", <<>>, DOMAIN q)
    /\ UNCHANGED <<streams, filtered_streams, aliased, rec, max_id, filter, no_streams,
                   no_stream_shown, store, now, current_pad, row, offsets, padLines,
                   pad_h, got_g, footer, issued>>

\* keys l and L in the streams pad: show_commandline writes the command line in the footer
KeyShowCommandline ==
    /\ pc = "select"
    /\ current_pad = "streams"
    /\ footer' = "Cmd"
    /\ pc' = "reap"
    /\ lastOp' = Op("commandline", 0, "none", "none", <<>>, {})
    /\ UNCHANGED <<streams, filtered_streams, aliased, rec, max_id, filter, no_streams,
                   no_stream_shown, q, store, now, current_pad, row, offsets, padLines,
                   pad_h, got_g, issued>>

\* a key that changes nothing: one that no branch of run() handles, ESC in the streams pad,
\* f and F in the help pad, and in the help pad Enter, s, c, n, r, u, l, L, a, d, h, ?
\* (skipped by the `continue` of line 312)
KeyIgnored ==
    /\ pc = "select"
    /\ pc' = "reap"
    /\ lastOp' = Op("ignored", 0, "none", "none", <<>>, {})
    /\ UNCHANGED <<streams, filtered_streams, aliased, rec, max_id, filter, no_streams,
                   no_stream_shown, q, store, now, current_pad, row, offsets, padLines,
                   pad_h, got_g, footer, issued>>

(* The environment *)

\* SIGWINCH while run() waits in select: resize runs, then select raises select.error and the
\* loop continues.  lines: the new height of the terminal
Resize(lines) ==
    /\ pc = "select"
    /\ LET ph == lines - 3
           plines == Max(1, Len(filtered_streams))
           \* after init_help and init_streams_pad
           v == [row |-> 0, offsets |-> [streams |-> 0, help |-> 0],
                 flt |-> filtered_streams, padLines |-> plines, no_streams |-> no_streams,
                 no_stream_shown |-> no_stream_shown, footer |-> footer,
                 current_pad |-> current_pad, pad_h |-> ph]
           m == Move(row, TRUE, "streams", v)
           \* show(): show_streams or show_help, each ending with refresh_current_pad
           sh == IF m.exc # "none" THEN [footer |-> m.footer, exc |-> m.exc]
                 ELSE IF current_pad = "help" THEN [footer |-> "Help", exc |-> "none"]
                 ELSE ShowStreams(no_streams, no_stream_shown, m.row, filtered_streams, m.footer)
           rf == IF sh.exc # "none" THEN sh.exc
                 ELSE RefreshCurrentPad(m.offsets[current_pad],
                                        IF current_pad = "streams" THEN plines
                                        ELSE help_pad_length,
                                        ph)
       IN /\ pad_h' = ph
          /\ padLines' = plines
          /\ row' = m.row
          /\ offsets' = m.offsets
          /\ footer' = sh.footer
          /\ pc' = Pc(rf)
          /\ lastOp' = Op("resize", lines, "none", rf, <<>>, {})
    /\ UNCHANGED <<streams, filtered_streams, aliased, rec, max_id, filter, no_streams,
                   no_stream_shown, q, store, now, current_pad, got_g, issued>>


\* a child process exits: its poll() no longer returns None
ProcExit(id) ==
    /\ pc \in {"reap", "select"} \cup Prompts
    /\ id \in DOMAIN q
    /\ q[id] = "running"
    /\ q' = [q EXCEPT ![id] = "exited"]
    /\ lastOp' = Op("exit", id, "none", "none", <<>>, {})
    /\ UNCHANGED <<streams, filtered_streams, aliased, rec, max_id, filter, no_streams,
                   no_stream_shown, store, now, current_pad, row, offsets, padLines,
                   pad_h, got_g, footer, pc, issued>>

\* time passes
Tick ==
    /\ pc \in {"reap", "select"}
    /\ now + TickStep <= MaxTime
    /\ now' = now + TickStep
    /\ lastOp' = Op("tick", 0, "none", "none", <<>>, {})
    /\ UNCHANGED <<streams, filtered_streams, aliased, rec, max_id, filter, no_streams,
                   no_stream_shown, q, store, current_pad, row, offsets, padLines,
                   pad_h, got_g, footer, pc, issued>>

-----------------------------------------------------------------------------
(* The commands of the streams pad *)

\* add_stream(name, url, res=None, bump): the registry after the call.  rebuilt: init_streams_pad
\* was reached; id: the id given to the new stream (0: none created); exc: the exception raised
AddStream(name, url, bump) ==
    LET ex_stream == FindStream(url, "url")
    IN IF ex_stream # 0
       THEN LET heap == IF bump
                        THEN [rec EXCEPT ![ex_stream] = BumpStream(rec[ex_stream], now, FALSE)]
                        ELSE rec
            IN [streams |-> streams, flt |-> filtered_streams, rec |-> heap, max_id |-> max_id,
                ns |-> no_streams, nss |-> no_stream_shown,
                store |-> IF bump THEN Snapshot(streams, heap) ELSE store,
                rebuilt |-> FALSE, id |-> 0, result |-> "existing", exc |-> "none"]
       ELSE LET mid == IF Len(streams) = 0 THEN max_id ELSE max_id + 1
                id == IF Len(streams) = 0 THEN 1 ELSE mid
                new_stream == [id |-> id, name |-> name,
                               seen |-> IF bump THEN 1 ELSE 0,
                               last_seen |-> IF bump THEN now ELSE 0,
                               res |-> DEFAULT_RESOLUTION_HARD, url |-> url]
                o == NewOid(rec)
                heap == [x \in DOMAIN rec \cup {o} |-> IF x = o THEN new_stream ELSE rec[x]]
                st1 == Append(streams, o)
                fl0 == IF aliased THEN st1 ELSE filtered_streams
            IN IF filter = None
               THEN \* `None in name.lower()` raises TypeError
                    [streams |-> st1, flt |-> fl0, rec |-> heap, max_id |-> mid,
                     ns |-> FALSE, nss |-> no_stream_shown, store |-> store,
                     rebuilt |-> FALSE, id |-> id, result |-> "created", exc |-> "TypeError"]
               ELSE LET fl1 == IF FilterMatches(new_stream, filter) THEN Append(fl0, o) ELSE fl0
                        st2 == IF aliased THEN fl1 ELSE st1
                    IN [streams |-> st2, flt |-> fl1, rec |-> heap, max_id |-> mid,
                        ns |-> FALSE, nss |-> (Len(fl1) = 0), store |-> Snapshot(st2, heap),
                        rebuilt |-> TRUE, id |-> id, result |-> "created", exc |-> "none"]

\* the model's bound on the registry: a new stream is created only within MaxStreams and MaxId
AddWithinBounds(url) ==
    \/ FindStream(url, "url") # 0
    \/ Len(streams) < MaxStreams /\ (Len(streams) = 0 \/ max_id < MaxId)

\* key a: prompt_new_stream, with url typed at the prompt
KeyAdd(url) ==
    /\ pc \in {"select", PromptOf.add}
    /\ current_pad = "streams"
    /\ LET name == LastSegment(url)
       IN IF Len(name) = 0
          THEN /\ footer' = "Blank"
               /\ pc' = "reap"
               /\ lastOp' = Op("add", 0, "cancel", "none", url, {})
               /\ UNCHANGED <<streams, filtered_streams, rec, max_id, no_streams,
                              no_stream_shown, store, row, offsets, padLines, issued>>
          ELSE /\ AddWithinBounds(url)
               /\ LET a == AddStream(name, url, FALSE)
                      v == [row |-> IF a.rebuilt THEN 0 ELSE row,
                            offsets |-> IF a.rebuilt THEN [offsets EXCEPT !.streams = 0] ELSE offsets,
                            flt |-> a.flt,
                            padLines |-> IF a.rebuilt THEN Max(1, Len(a.flt)) ELSE padLines,
                            no_streams |-> a.ns, no_stream_shown |-> a.nss,
                            footer |-> "Blank", current_pad |-> current_pad, pad_h |-> pad_h]
                      m == IF a.exc = "none"
                           THEN Move(Len(a.flt) - 1, TRUE, current_pad, v)
                           ELSE [row |-> v.row, offsets |-> v.offsets, footer |-> v.footer,
                                 exc |-> a.exc]
                      sh == IF m.exc = "none"
                            THEN ShowStreams(a.ns, a.nss, m.row, a.flt, m.footer)
                            ELSE [footer |-> m.footer, exc |-> m.exc]
                  IN /\ streams' = a.streams
                     /\ filtered_streams' = a.flt
                     /\ rec' = a.rec
                     /\ max_id' = a.max_id
                     /\ no_streams' = a.ns
                     /\ no_stream_shown' = a.nss
                     /\ store' = a.store
                     /\ padLines' = v.padLines
                     /\ row' = m.row
                     /\ offsets' = m.offsets
                     /\ footer' = sh.footer
                     /\ pc' = Pc(sh.exc)
                     /\ issued' = IF a.id = 0 THEN issued ELSE issued \cup {a.id}
                     /\ lastOp' = Op("add", a.id, a.result, sh.exc, url, {})
    /\ UNCHANGED <<aliased, filter, q, now, current_pad, pad_h, got_g>>

\* keys f, a, d, c, n, r, u up to the question: the handler has drawn its prompt on the
\* last line and waits for the answer.  The key actions above and below, taken from
\* PromptOf[kind], are the rest of the handler once the answer is typed
KeyPrompt(kind) ==
    /\ pc = "select"
    /\ current_pad = "streams"
    /\ CASE kind \in {"filter", "add"} -> TRUE
         [] kind \in {"delete", "name", "url", "res"} ->
                ~no_streams /\ row < Len(filtered_streams)
         [] kind = "reset" -> ~no_stream_shown /\ row < Len(filtered_streams)
    /\ footer' = "Prompt"
    /\ pc' = PromptOf[kind]
    /\ lastOp' = Op("prompt", 0, kind, "none", <<>>, {})
    /\ UNCHANGED <<streams, filtered_streams, aliased, rec, max_id, filter, no_streams,
                   no_stream_shown, q, store, now, current_pad, row, offsets, padLines,
                   pad_h, got_g, issued>>

\* key d: delete_stream, with the answer given to the confirmation prompt
KeyDelete(confirm) ==
    /\ pc \in {"select", PromptOf.delete}
    /\ current_pad = "streams"
    /\ IF no_streams
       THEN /\ pc' = "reap"
            /\ lastOp' = Op("delete", 0, "noop", "none", <<>>, {})
            /\ UNCHANGED <<streams, filtered_streams, rec, no_streams, no_stream_shown,
                           store, row, offsets, footer>>
       ELSE IF row >= Len(filtered_streams)
       THEN /\ pc' = "crashed"
            /\ lastOp' = Op("delete", 0, "none", "IndexError", <<>>, {})
            /\ UNCHANGED <<streams, filtered_streams, rec, no_streams, no_stream_shown,
                           store, row, offsets, footer>>
       ELSE IF ~confirm
       THEN /\ footer' = "Blank"
            /\ pc' = "reap"
            /\ lastOp' = Op("delete", rec[filtered_streams[row + 1]].id, "declined", "none", <<>>, {})
            /\ UNCHANGED <<streams, filtered_streams, rec, no_streams, no_stream_shown,
                           store, row, offsets>>
       ELSE LET s == rec[filtered_streams[row + 1]]
                fl1 == ListRemove(filtered_streams, s, rec)
                st0 == IF aliased THEN fl1 ELSE streams
            IN IF IndexOf(st0, s, rec) = 0
               THEN \* self.streams.remove(s) raises ValueError
                    /\ streams' = st0
                    /\ filtered_streams' = fl1
                    /\ rec' = Gc(rec, st0, fl1)
                    /\ footer' = "Blank"
                    /\ pc' = "crashed"
                    /\ lastOp' = Op("delete", s.id, "none", "ValueError", <<>>, {})
                    /\ UNCHANGED <<no_streams, no_stream_shown, store, row, offsets>>
               ELSE LET st1 == ListRemove(st0, s, rec)
                        fl2 == IF aliased THEN st1 ELSE fl1
                        heap == Gc(rec, st1, fl2)
                        ns == no_streams \/ Len(st1) = 0
                        nss == no_stream_shown \/ Len(fl2) = 0
                        v == [row |-> row, offsets |-> offsets, flt |-> fl2,
                              padLines |-> padLines, no_streams |-> ns,
                              no_stream_shown |-> nss, footer |-> "Blank",
                              current_pad |-> current_pad, pad_h |-> pad_h]
                        m == IF row = Len(fl2) /\ ~nss
                             THEN Move(-1, FALSE, current_pad, v)
                             ELSE [row |-> row, offsets |-> offsets, footer |-> "Blank",
                                   exc |-> "none"]
                        rc == IF m.exc = "none" THEN RedrawCurrentLine(ns, m.row, fl2) ELSE m.exc
                        sh == IF rc = "none"
                              THEN ShowStreams(ns, nss, m.row, fl2, m.footer)
                              ELSE [footer |-> m.footer, exc |-> rc]
                    IN /\ streams' = st1
                       /\ filtered_streams' = fl2
                       /\ rec' = heap
                       /\ store' = Snapshot(st1, heap)
                       /\ no_streams' = ns
                       /\ no_stream_shown' = nss
                       /\ row' = m.row
                       /\ offsets' = m.offsets
                       /\ footer' = sh.footer
                       /\ pc' = Pc(sh.exc)
                       /\ lastOp' = Op("delete", s.id, "deleted", sh.exc, <<>>, {})
    /\ UNCHANGED <<aliased, max_id, filter, q, now, current_pad, padLines, pad_h, got_g,
                   issued>>

\* key c: reset_stream, with the answer given to the confirmation prompt
KeyReset(confirm) ==
    /\ pc \in {"select", PromptOf.reset}
    /\ current_pad = "streams"
    /\ IF no_stream_shown
       THEN /\ pc' = "reap"
            /\ lastOp' = Op("reset", 0, "noop", "none", <<>>, {})
            /\ UNCHANGED <<rec, store, footer>>
       ELSE IF row >= Len(filtered_streams)
       THEN /\ pc' = "crashed"
            /\ lastOp' = Op("reset", 0, "none", "IndexError", <<>>, {})
            /\ UNCHANGED <<rec, store, footer>>
       ELSE LET o == filtered_streams[row + 1]
                heap == [rec EXCEPT ![o].seen = 0, ![o].last_seen = 0]
            IN IF ~confirm
               THEN /\ footer' = "Blank"
                    /\ pc' = "reap"
                    /\ lastOp' = Op("reset", rec[o].id, "declined", "none", <<>>, {})
                    /\ UNCHANGED <<rec, store>>
               ELSE /\ rec' = heap
                    /\ store' = Snapshot(streams, heap)
                    /\ footer' = "Blank"
                    /\ pc' = "reap"
                    /\ lastOp' = Op("reset", rec[o].id, "reset", "none", <<>>, {})
    /\ UNCHANGED <<streams, filtered_streams, aliased, max_id, filter, no_streams,
                   no_stream_shown, q, now, current_pad, row, offsets, padLines, pad_h,
                   got_g, issued>>

\* keys n, r, u: edit_stream(attr), with new_val typed at the prompt
KeyEdit(attr, new_val) ==
    /\ pc \in {"select", PromptOf[attr]}
    /\ current_pad = "streams"
    /\ IF no_streams
       THEN /\ pc' = "reap"
            /\ lastOp' = Op("edit", 0, "noop", "none", <<>>, {})
            /\ UNCHANGED <<rec, footer>>
       ELSE IF row >= Len(filtered_streams)
       THEN /\ pc' = "crashed"
            /\ lastOp' = Op("edit", 0, "none", "IndexError", <<>>, {})
            /\ UNCHANGED <<rec, footer>>
       ELSE LET o == filtered_streams[row + 1]
                f == RedrawStreamFooter(no_stream_shown, row, filtered_streams, "Blank")
            IN /\ rec' = IF new_val # <<>> THEN [rec EXCEPT ![o][attr] = new_val] ELSE rec
               /\ footer' = f.footer
               /\ pc' = Pc(f.exc)
               /\ lastOp' = Op("edit", rec[o].id, IF new_val # <<>> THEN attr ELSE "cancel",
                               f.exc, new_val, {})
    /\ UNCHANGED <<streams, filtered_streams, aliased, max_id, filter, no_streams,
                   no_stream_shown, q, store, now, current_pad, row, offsets, padLines,
                   pad_h, got_g, issued>>

\* key Enter: play_stream.  spawnOk = FALSE: Popen raises OSError
KeyPlay(spawnOk) ==
    /\ pc = "select"
    /\ current_pad = "streams"
    /\ IF no_stream_shown
       THEN /\ pc' = "reap"
            /\ lastOp' = Op("play", 0, "noop", "none", <<>>, {})
            /\ UNCHANGED <<rec, q, store, footer>>
       ELSE IF row >= Len(filtered_streams)
       THEN /\ pc' = "crashed"
            /\ lastOp' = Op("play", 0, "none", "IndexError", <<>>, {})
            /\ UNCHANGED <<rec, q, store, footer>>
       ELSE LET o == filtered_streams[row + 1]
                s == rec[o]
                p == Put(q, s.id, spawnOk)
                heap == [rec EXCEPT ![o] = BumpStream(s, now, TRUE)]
            IN IF p.exc = "none"
               THEN /\ q' = p.q
                    /\ rec' = heap
                    /\ store' = IF BumpSuppressed(s, now, TRUE) THEN store
                                 ELSE Snapshot(streams, heap)
                    /\ pc' = "reap"
                    /\ lastOp' = Op("play", s.id, "spawned", "none", <<>>, {})
                    /\ UNCHANGED footer
               ELSE /\ q' = p.q
                    /\ footer' = IF p.exc = "QueueDuplicate" THEN "AlreadyPlaying"
                                  ELSE IF p.exc = "OSError" THEN "FaultyCmd"
                                  ELSE footer
                    /\ pc' = IF p.exc \in {"QueueDuplicate", "OSError"} THEN "reap" ELSE "crashed"
                    /\ lastOp' = Op("play", s.id, p.exc,
                                    IF p.exc \in {"QueueDuplicate", "OSError"} THEN "none" ELSE p.exc,
                                    <<>>, {})
                    /\ UNCHANGED <<rec, store>>
    /\ UNCHANGED <<streams, filtered_streams, aliased, max_id, filter, no_streams,
                   no_stream_shown, now, current_pad, row, offsets, padLines, pad_h,
                   got_g, issued>>

\* key s: stop_stream
KeyStop ==
    /\ pc = "select"
    /\ current_pad = "streams"
    /\ IF no_stream_shown
       THEN /\ pc' = "reap"
            /\ lastOp' = Op("stop", 0, "noop", "none", <<>>, {})
            /\ UNCHANGED <<q, footer>>
       ELSE IF row >= Len(filtered_streams)
       THEN /\ pc' = "crashed"
            /\ lastOp' = Op("stop", 0, "none", "IndexError", <<>>, {})
            /\ UNCHANGED <<q, footer>>
       ELSE LET s == rec[filtered_streams[row + 1]]
                t == TerminateProcess(q, s.id)
            IN /\ q' = t.q
               /\ footer' = IF t.p THEN "Info" ELSE footer
               /\ pc' = "reap"
               /\ lastOp' = Op("stop", s.id, IF t.p THEN "stopped" ELSE "none", "none", <<>>, {})
    /\ UNCHANGED <<streams, filtered_streams, aliased, rec, max_id, filter, no_streams,
                   no_stream_shown, store, now, current_pad, row, offsets, padLines,
                   pad_h, got_g, issued>>

\* a direct call of bump_stream(stream, throttle) on the i-th stream of self.streams
BumpStreamCall(i, throttle) ==
    /\ pc \in {"reap", "select"}
    /\ i \in 1..Len(streams)
    /\ rec[streams[i]].seen < MaxSeen
    /\ LET o == streams[i]
           heap == [rec EXCEPT ![o] = BumpStream(rec[o], now, throttle)]
       IN /\ rec' = heap
          /\ store' = IF BumpSuppressed(rec[o], now, throttle) THEN store
                       ELSE Snapshot(streams, heap)
          /\ lastOp' = Op("bump", i,
                          IF BumpSuppressed(rec[o], now, throttle) THEN "suppressed" ELSE "bumped",
                          "none", IF throttle THEN <<"throttle">> ELSE <<>>, {})
    /\ UNCHANGED <<streams, filtered_streams, aliased, max_id, filter, no_streams,
                   no_stream_shown, q, now, current_pad, row, offsets, padLines, pad_h,
                   got_g, footer, pc, issued>>

\* time() is the wall clock: it may be set to any value
ClockSet(t) ==
    /\ pc \in {"reap", "select"}
    /\ t # now
    /\ now' = t
    /\ lastOp' = Op("tick", 0, "none", "none", <<>>, {})
    /\ UNCHANGED <<streams, filtered_streams, aliased, rec, max_id, filter, no_streams,
                   no_stream_shown, q, store, current_pad, row, offsets, padLines,
                   pad_h, got_g, footer, pc, issued>>
ClockValues == {t \in Epoch..MaxTime : (t - Epoch) % TickStep = 0}

-----------------------------------------------------------------------------
(* The whole program: every key of run() and the environment *)
Next ==
    \/ CheckStoppedStreams
    \/ SelectTimeout
    \/ \E direction \in {-1, 1} : KeyMove(direction)
    \/ KeySmallG
    \/ KeyBigG
    \/ \E text \in FilterTexts : KeyFilter(text)
    \/ KeyClearFilter
    \/ KeyHelp
    \/ KeyLeaveHelp
    \/ KeyQuit
    \/ \E url \in NewUrls : KeyAdd(url)
    \/ \E confirm \in BOOLEAN : KeyDelete(confirm)
    \/ \E confirm \in BOOLEAN : KeyReset(confirm)
    \/ \E attr \in {"name", "url", "res"} : \E new_val \in EditValues[attr] : KeyEdit(attr, new_val)
    \/ \E spawnOk \in BOOLEAN : KeyPlay(spawnOk)
    \/ \E kind \in DOMAIN PromptOf : KeyPrompt(kind)
    \/ KeyStop
    \/ KeyShowCommandline
    \/ KeyIgnored
    \/ \E lines \in TermLines : Resize(lines)
    \/ \E id \in DOMAIN q : ProcExit(id)
    \/ Tick

Spec == Init /\ [][Next]_vars

(***************************************************************************)
(* The state space of Spec is too large to enumerate with three streams.   *)
(* The properties below are checked under restrictions of Next to the keys *)
(* that write or select what each property reads.                          *)
(***************************************************************************)

\* the registry: adding, deleting, filtering and moving the cursor
NextRegistry ==
    \/ CheckStoppedStreams
    \/ \E direction \in {-1, 1} : KeyMove(direction)
    \/ \E text \in FilterTexts : KeyFilter(text)
    \/ KeyClearFilter
    \/ \E url \in NewUrls : KeyAdd(url)
    \/ \E confirm \in BOOLEAN : KeyDelete(confirm)
SpecRegistry == Init /\ [][NextRegistry]_vars

\* the filtered view: adding, playing (which bumps), filtering and moving the cursor
NextFilter ==
    \/ CheckStoppedStreams
    \/ \E direction \in {-1, 1} : KeyMove(direction)
    \/ \E text \in FilterTexts : KeyFilter(text)
    \/ KeyClearFilter
    \/ \E url \in NewUrls : KeyAdd(url)
    \/ \E spawnOk \in BOOLEAN : KeyPlay(spawnOk)
SpecFilter == Init /\ [][NextFilter]_vars

\* the process table: playing, stopping, reaping, quitting, and processes that exit
NextSupervisor ==
    \/ CheckStoppedStreams
    \/ SelectTimeout
    \/ \E direction \in {-1, 1} : KeyMove(direction)
    \/ \E url \in NewUrls : KeyAdd(url)
    \/ \E spawnOk \in BOOLEAN : KeyPlay(spawnOk)
    \/ KeyStop
    \/ KeyQuit
    \/ \E id \in DOMAIN q : ProcExit(id)
SpecSupervisor == Init /\ [][NextSupervisor]_vars

\* bump_stream: called directly with either value of throttle, and by play_stream
\* after a stream was stopped, at any clock value
NextBump ==
    \/ CheckStoppedStreams
    \/ \E direction \in {-1, 1} : KeyMove(direction)
    \/ \E spawnOk \in BOOLEAN : KeyPlay(spawnOk)
    \/ KeyStop
    \/ \E i \in 1..Len(streams), throttle \in BOOLEAN : BumpStreamCall(i, throttle)
    \/ \E t \in ClockValues : ClockSet(t)
SpecBump == Init /\ [][NextBump]_vars

\* the viewport of the streams pad: moving, jumping, filtering, adding, deleting, resizing
NextView ==
    \/ CheckStoppedStreams
    \/ \E direction \in {-1, 1} : KeyMove(direction)
    \/ KeySmallG
    \/ KeyBigG
    \/ KeyIgnored
    \/ \E text \in FilterTexts : KeyFilter(text)
    \/ KeyClearFilter
    \/ \E url \in NewUrls : KeyAdd(url)
    \/ \E confirm \in BOOLEAN : KeyDelete(confirm)
    \/ \E lines \in TermLines : Resize(lines)
SpecView == Init /\ [][NextView]_vars

\* quitting: playing, the help pad, q in either pad, and processes that exit
NextQuit ==
    \/ CheckStoppedStreams
    \/ \E url \in NewUrls : KeyAdd(url)
    \/ \E spawnOk \in BOOLEAN : KeyPlay(spawnOk)
    \/ KeyHelp
    \/ KeyLeaveHelp
    \/ KeyQuit
    \/ \E id \in DOMAIN q : ProcExit(id)
SpecQuit == Init /\ [][NextQuit]_vars

\* the program started in a terminal of 6 lines
InitSixLines == Init /\ pad_h = 3
\* what is typed at the 'New stream URL' and 'Filter:' prompts in the specifications below
FewUrls == {<<>>, U1}
FewFilterTexts == {<<>>, <<"A">>}

\* persistence: the commands that change a record or the list of records
NextPersist ==
    \/ CheckStoppedStreams
    \/ \E url \in FewUrls : KeyAdd(url)
    \/ \E confirm \in BOOLEAN : KeyDelete(confirm)
    \/ \E confirm \in BOOLEAN : KeyReset(confirm)
    \/ \E attr \in {"name", "url", "res"} : \E new_val \in EditValues[attr] : KeyEdit(attr, new_val)
SpecPersist == InitSixLines /\ [][NextPersist]_vars

\* editing under a filter: the commands that change what the filter reads
NextEdit ==
    \/ CheckStoppedStreams
    \/ \E text \in FewFilterTexts : KeyFilter(text)
    \/ \E url \in FewUrls : KeyAdd(url)
    \/ \E confirm \in BOOLEAN : KeyDelete(confirm)
    \/ \E attr \in {"name", "url"} : \E new_val \in EditValues[attr] : KeyEdit(attr, new_val)
SpecEdit == InitSixLines /\ [][NextEdit]_vars

\* the empty view: filtering, adding and playing lead to it; the navigation keys and the
\* keys that need a current record are pressed while filtered_streams is empty
NextEmptyView ==
    \/ CheckStoppedStreams
    \/ \E text \in {<<>>, <<"z">>} : KeyFilter(text)
    \/ \E url \in {<<>>, U3} : KeyAdd(url)
    \/ \E spawnOk \in BOOLEAN : KeyPlay(spawnOk)
    \/ \E direction \in {-1, 1} : Len(filtered_streams) = 0 /\ KeyMove(direction)
    \/ Len(filtered_streams) = 0 /\ KeySmallG
    \/ Len(filtered_streams) = 0 /\ KeyBigG
    \/ Len(filtered_streams) = 0 /\ KeyStop
    \/ \E confirm \in BOOLEAN : Len(filtered_streams) = 0 /\ KeyReset(confirm)
    \/ \E attr \in {"name", "url", "res"} : \E new_val \in EditValues[attr] :
           Len(filtered_streams) = 0 /\ KeyEdit(attr, new_val)
    \/ \E confirm \in BOOLEAN : Len(filtered_streams) = 0 /\ KeyDelete(confirm)
SpecEmptyView == InitSixLines /\ [][NextEmptyView]_vars

\* the help pad: entering and leaving it, paging and jumping in it, in terminals of
\* every height of TermLines
NextHelp ==
    \/ CheckStoppedStreams
    \/ \E direction \in {-1, 1} : KeyMove(direction)
    \/ KeySmallG
    \/ KeyBigG
    \/ KeyHelp
    \/ KeyLeaveHelp
    \/ \E url \in {<<>>, U3} : KeyAdd(url)
    \/ \E lines \in TermLines : Resize(lines)
SpecHelp == Init /\ [][NextHelp]_vars

\* the help pad with every key: the keys of NextHelp and the keys that run() passes over
NextHelpKeys ==
    \/ NextHelp
    \/ KeyIgnored
SpecHelpKeys == Init /\ [][NextHelpKeys]_vars

\* the records and their processes: records are added and deleted, the current record is
\* launched and stopped, children exit and are reaped
NextOrphan ==
    \/ CheckStoppedStreams
    \/ \E direction \in {-1, 1} : KeyMove(direction)
    \/ \E url \in FewUrls : KeyAdd(url)
    \/ \E confirm \in BOOLEAN : KeyDelete(confirm)
    \/ \E spawnOk \in BOOLEAN : KeyPlay(spawnOk)
    \/ KeyStop
    \/ \E id \in DOMAIN q : ProcExit(id)
SpecOrphan == InitSixLines /\ [][NextOrphan]_vars

\* reaping while the keyboard may fall silent: children are launched and exit at any
\* time, the keys that ask a question are pressed and answered or left unanswered.  The
\* loop itself always goes on: check_stopped_streams returns, and select returns after
\* its one-second timeout; nothing obliges the user to type.  The edit prompts are
\* answered with an empty line
NextReap ==
    \/ CheckStoppedStreams
    \/ SelectTimeout
    \/ \E spawnOk \in BOOLEAN : KeyPlay(spawnOk)
    \/ \E id \in DOMAIN q : ProcExit(id)
    \/ \E kind \in DOMAIN PromptOf : KeyPrompt(kind)
    \/ \E text \in FewFilterTexts : KeyFilter(text)
    \/ \E url \in FewUrls : KeyAdd(url)
    \/ \E confirm \in BOOLEAN : KeyDelete(confirm)
    \/ \E confirm \in BOOLEAN : KeyReset(confirm)
    \/ \E attr \in {"name", "url", "res"} : KeyEdit(attr, <<>>)
SpecReap ==
    InitSixLines /\ [][NextReap]_vars /\ WF_vars(CheckStoppedStreams) /\ WF_vars(SelectTimeout)

-----------------------------------------------------------------------------
(* The properties *)

SeenOf(heap, o) == heap[o].seen
\* list is in seen-descending order
SeenDescending(list, heap) ==
    \A i, j \in 1..Len(list) : i < j => SeenOf(heap, list[i]) >= SeenOf(heap, list[j])
\* the two letters are the same up to case
SameLetter(a, b) ==
    \/ a = b
    \/ {a, b} \in {{"a", "A"}, {"b", "B"}, {"c", "C"}, {"z", "Z"}}
\* text occurs in s, case-insensitively
CiContains(text, s) ==
    \E k \in 0..(Len(s) - Len(text)) : \A i \in 1..Len(text) : SameLetter(text[i], s[k + i])

\* C1: no two records of all_streams have the same id
C1_UniqueIds ==
    \A i, j \in 1..Len(streams) : i # j => rec[streams[i]].id # rec[streams[j]].id

\* C2: the id assigned by add is strictly greater than every id issued before,
\* the ids of deleted records included
C2_IdsNeverReused ==
    [][(lastOp'.op = "add" /\ lastOp'.result = "created")
         => \A j \in issued : lastOp'.num > j]_vars

\* C3: add with the url of an existing record creates nothing and changes no record;
\* add with a new url appends one record with that url, whatever its name; either way
\* exactly one record holds the url afterwards
C3_AddIdempotentOnUrl ==
    [][(lastOp'.op = "add" /\ lastOp'.result # "cancel")
         => LET url == lastOp'.arg
                had == {i \in 1..Len(streams) : rec[streams[i]].url = url}
                has == {i \in 1..Len(streams') : rec'[streams'[i]].url = url}
            IN /\ Cardinality(has) = 1
               /\ IF had # {}
                  THEN /\ streams' = streams
                       /\ filtered_streams' = filtered_streams
                       /\ rec' = rec
                       /\ store' = store
                  ELSE /\ Len(streams') = Len(streams) + 1
                       /\ SubSeq(streams', 1, Len(streams)) = streams
                       /\ \A o \in DOMAIN rec : rec'[o] = rec[o]
                       /\ streams'[Len(streams')] \notin DOMAIN rec
                       /\ rec'[streams'[Len(streams')]].url = url
                       /\ rec'[streams'[Len(streams')]].name = LastSegment(url)]_vars
\* the same url was added twice, next to a record of the same name and another url
C3_Witness ==
    /\ lastOp.op = "add"
    /\ lastOp.result = "existing"
    /\ \E i, j \in 1..Len(streams) :
           /\ rec[streams[i]].name = rec[streams[j]].name
           /\ rec[streams[i]].url # rec[streams[j]].url
           /\ rec[streams[i]].url = lastOp.arg

\* what bump(throttle) does to record o at the current time
BumpEffect(o, throttle) ==
    /\ \A x \in DOMAIN rec \ {o} : rec'[x] = rec[x]
    /\ IF throttle /\ now - rec[o].last_seen < 60
       THEN rec'[o] = rec[o]
       ELSE rec'[o] = [rec[o] EXCEPT !.seen = rec[o].seen + 1, !.last_seen = now]
\* C4: a throttled bump less than 60 seconds after the last counted one changes
\* neither seen_count nor last_seen; every other bump adds 1 to seen_count and sets
\* last_seen to the current time; of two throttled bumps at the same instant only the
\* first counts
C4_BumpThrottle ==
    [][/\ lastOp'.op = "bump"
            => BumpEffect(streams[lastOp'.num], lastOp'.arg = <<"throttle">>)
       /\ (lastOp'.op = "play" /\ lastOp'.result = "spawned")
            => BumpEffect(filtered_streams[row + 1], TRUE)
       /\ (lastOp.op = "bump" /\ lastOp'.op = "bump" /\ lastOp'.num = lastOp.num
             /\ lastOp'.arg = <<"throttle">>)
            => lastOp'.result = "suppressed"]_vars
\* a stream counted once is played again less than 60 seconds later
C4_Witness ==
    /\ lastOp.op = "play"
    /\ lastOp.result = "spawned"
    /\ row < Len(filtered_streams)
    /\ now - rec[filtered_streams[row + 1]].last_seen > 0
    /\ now - rec[filtered_streams[row + 1]].last_seen < 60

\* C5: clearing a non-empty filter (empty filter text, or F) leaves every record of
\* all_streams in filtered_streams, in seen_count-descending order
C5_ClearRestoresSorted ==
    [][(/\ filter # None
        /\ filter # <<>>
        /\ \/ lastOp'.op = "clear_filter"
           \/ lastOp'.op = "filter" /\ lastOp'.arg = <<>>)
         => /\ Len(filtered_streams') = Len(streams')
            /\ Range(filtered_streams') = Range(streams')
            /\ SeenDescending(filtered_streams', rec')]_vars

\* C6: a non-empty filter text yields exactly the records whose name or url contains
\* it case-insensitively, each once, by seen_count descending, ties in all_streams order
C6_FilterResult ==
    (lastOp.op = "filter" /\ lastOp.arg # <<>>)
      => LET text == lastOp.arg
             hit(o) == CiContains(text, rec[o].name) \/ CiContains(text, rec[o].url)
             pos(o) == CHOOSE i \in 1..Len(streams) : streams[i] = o
             times(o) == Cardinality({j \in 1..Len(filtered_streams) : filtered_streams[j] = o})
         IN /\ Range(filtered_streams) \subseteq Range(streams)
            /\ \A i \in 1..Len(streams) :
                   times(streams[i]) = IF hit(streams[i]) THEN 1 ELSE 0
            /\ \A j, k \in 1..Len(filtered_streams) :
                   j < k =>
                     \/ rec[filtered_streams[j]].seen > rec[filtered_streams[k]].seen
                     \/ /\ rec[filtered_streams[j]].seen = rec[filtered_streams[k]].seen
                        /\ pos(filtered_streams[j]) < pos(filtered_streams[k])
\* an upper-case text selected two of three records, which have the same seen_count
C6_Witness ==
    /\ lastOp.op = "filter"
    /\ lastOp.arg = <<"A">>
    /\ Len(streams) = 3
    /\ Len(filtered_streams) = 2
    /\ rec[filtered_streams[1]].seen = rec[filtered_streams[2]].seen

C8_CapacityNotFatal ==
    (lastOp.op = "play" /\ lastOp.result = "QueueFull")
      => /\ pc \in {"reap", "select"}
         /\ footer = "CapacityExceeded"

\* C9: the table never holds more than max_size entries, and a launch that spawns a
\* process adds an entry for an id that had none (no entry is replaced)
C9_TableBounded ==
    [][/\ Cardinality(DOMAIN q') <= max_size
       /\ (lastOp'.op = "play" /\ lastOp'.result = "spawned")
            => /\ lastOp'.num \notin DOMAIN q
               /\ DOMAIN q' = DOMAIN q \cup {lastOp'.num}
               /\ \A i \in DOMAIN q : q'[i] = q[i]]_vars
\* a launch filled the table
C9_Witness ==
    /\ lastOp.op = "play"
    /\ lastOp.result = "spawned"
    /\ Cardinality(DOMAIN q) = max_size

\* C10: reap returns exactly the ids of the entries whose process has exited and
\* removes exactly those; with none exited it returns nothing and changes nothing
C10_ReapExact ==
    [][lastOp'.op = "reap"
         => LET exited == {i \in DOMAIN q : q[i] = "exited"}
            IN /\ lastOp'.ret = exited
               /\ DOMAIN q' = DOMAIN q \ exited
               /\ \A i \in DOMAIN q' : q'[i] = "running" /\ q[i] = "running"
               /\ exited = {} => q' = q]_vars
\* reap removed an exited process and kept a running one
C10_Witness ==
    /\ lastOp.op = "reap"
    /\ lastOp.ret # {}
    /\ \E i \in DOMAIN q : q[i] = "running"

\* the event loop is running: run() has neither returned nor been left by an exception
Live == pc \in {"reap", "select"}
\* the streams pad is the current pad and shows N >= 1 records
StreamsShown == Live /\ current_pad = "streams" /\ Len(filtered_streams) >= 1

\* C11: in the stream list with N >= 1 shown records a move-down puts the cursor one row
\* lower while it is above row N-1 (so N-1 of them from row 0 reach row N-1), and on row
\* N-1 it leaves the cursor row and the scroll offset unchanged
C11_MoveDown ==
    [][(StreamsShown /\ lastOp'.op = "move" /\ lastOp'.num = 1)
         => /\ pc' = "reap"
            /\ IF row < Len(filtered_streams) - 1
               THEN row' = row + 1
               ELSE row' = row /\ offsets' = offsets]_vars
\* a move-down on the last of three rows stayed there
C11_Witness ==
    /\ StreamsShown
    /\ lastOp.op = "move" /\ lastOp.num = 1 /\ lastOp.result = "stayed"
    /\ Len(filtered_streams) = 3
    /\ row = 2

\* C12: with at least one shown record, gg in the stream list puts the cursor on row 0 and
\* the scroll offset at 0, whatever the cursor row, the offset and the page height were
C12_JumpToTop ==
    [][(StreamsShown /\ lastOp'.op = "gg")
         => row' = 0 /\ offsets'.streams = 0 /\ pc' = "reap"]_vars
\* gg was pressed with the cursor on the third row of a page too short to show row 0
C12_Witness ==
    /\ StreamsShown
    /\ lastOp.op = "gg" /\ lastOp.num = 2
    /\ pad_h \in {2, 3}
    /\ row = 0 /\ offsets.streams = 0

\* C17: while the stream list is the current pane and shows N >= 1 records, the cursor
\* row is within 0..N-1
C17_CursorInRange ==
    StreamsShown => 0 <= row /\ row <= Len(filtered_streams) - 1
\* the last shown record was deleted and the cursor is on the new last row
C17_Witness ==
    /\ StreamsShown
    /\ lastOp.op = "delete" /\ lastOp.result = "deleted"
    /\ Len(filtered_streams) = 2
    /\ row = 1

\* the keys of run(), as recorded by the step that handles them
KeyOps ==
    {"move", "g", "gg", "G", "filter", "clear_filter", "help", "leave_help", "quit", "add",
     "delete", "reset", "edit", "play", "stop", "commandline", "ignored"}
\* C18: the key that follows a first g always leaves the pending flag cleared
C18_PendingFlagOneShot ==
    [][(pc = "select" /\ got_g /\ lastOp'.op \in KeyOps) => ~got_g']_vars

C13_Quit ==
    [][/\ lastOp'.op = "quit"
           => current_pad = "streams" /\ q' = EmptyTable /\ pc' = "quit"
       /\ lastOp'.op = "leave_help"
           => current_pad = "help" /\ current_pad' = "streams" /\ q' = q /\ pc' = "reap"
       /\ pc = "quit" => pc' = "quit"]_vars
\* q was pressed in the stream list while two processes were in the table
C13_Witness ==
    /\ lastOp.op = "quit"
    /\ Cardinality(lastOp.ret) = 2
    /\ q = EmptyTable
    /\ pc = "quit"

\* C14: a command that changes the registry in memory (a field of a record, or the list)
\* and returns to the event loop has saved it: the persisted snapshot equals all_streams
C14_PersistedAfterMutation ==
    [][(Live' /\ Snapshot(streams', rec') # Snapshot(streams, rec))
         => store' = Snapshot(streams', rec')]_vars

\* the records that filtered_streams has to show under filter flt
Matching(list, heap, flt) ==
    {o \in Range(list) : flt \in {None, <<>>} \/ FilterMatches(heap[o], flt)}
\* C15: after every add, delete or edit that returns to the event loop, filtered_streams
\* holds, each once, exactly the records of all_streams that match the active filter
C15_ViewsConsistent ==
    [][(Live' /\ lastOp'.op \in {"add", "delete", "edit"})
         => /\ Range(filtered_streams') = Matching(streams', rec', filter')
            /\ Cardinality(Range(filtered_streams')) = Len(filtered_streams')]_vars

\* C16: while filtered_streams is empty every navigation key and every key that needs a
\* current record (Enter, s, c, n, r, u, d) changes neither the registry, nor the process
\* table, nor the viewport, and the event loop keeps running
C16_EmptyViewNoOp ==
    [][(/\ pc = "select"
        /\ current_pad = "streams"
        /\ Len(filtered_streams) = 0
        /\ lastOp'.op \in {"move", "g", "gg", "G", "play", "stop", "reset", "edit", "delete"})
         => /\ pc' = "reap"
            /\ UNCHANGED <<streams, filtered_streams, rec, max_id, store, q, row, offsets>>]_vars

\* C20: in the help pane every paging step and every absolute jump leaves the scroll
\* offset at 0 or more and at content height - page height + 1 or less; where the page is
\* higher than the content + 1, the offset is 0
C20_HelpOffsetInRange ==
    [][(pc = "select" /\ current_pad = "help" /\ lastOp'.op \in {"move", "gg", "G"})
         => /\ offsets'.help >= 0
            /\ offsets'.help <= Max(0, help_pad_length - pad_h + 1)]_vars

\* list without the object o
Without(list, o) == SelectSeq(list, LAMBDA x : x # o)
\* C21: wherever there is a current record (no filter, a filter, after F), a confirmed
\* delete removes exactly that record from all_streams and from filtered_streams, saves
\* the snapshot and returns to the event loop, also when it was the only record shown
C21_DeleteExact ==
    [][(/\ pc = "select"
        /\ row < Len(filtered_streams)
        /\ lastOp'.op = "delete"
        /\ lastOp'.result \notin {"noop", "declined"})
         => LET o == filtered_streams[row + 1]
            IN /\ streams' = Without(streams, o)
               /\ filtered_streams' = Without(filtered_streams, o)
               /\ store' = Snapshot(streams', rec')
               /\ pc' = "reap"]_vars

\* C22: in every filter state (none yet, a filter, after F) adding a new url appends one
\* record to all_streams, appends it once to filtered_streams exactly when it matches the
\* active filter, saves the snapshot and returns to the event loop
C22_AddExact ==
    [][(lastOp'.op = "add" /\ lastOp'.result = "created")
         => LET o == streams'[Len(streams')]
                shown == {i \in 1..Len(filtered_streams') : filtered_streams'[i] = o}
            IN /\ Len(streams') = Len(streams) + 1
               /\ SubSeq(streams', 1, Len(streams)) = streams
               /\ o \notin Range(streams)
               /\ Cardinality(shown) =
                      IF filter \in {None, <<>>} \/ FilterMatches(rec'[o], filter) THEN 1 ELSE 0
               /\ Without(filtered_streams', o) = filtered_streams
               /\ store' = Snapshot(streams', rec')
               /\ pc' = "reap"]_vars

\* C23: reaping does not wait for the keyboard: once a child has exited, its entry leaves
\* the table of the running program even if no key is pressed any more, also while a
\* filter, add, edit, delete or reset prompt is open
C23_ReapedWithoutKeys ==
    \A id \in 1..MaxId :
        (id \in DOMAIN q /\ q[id] = "exited") ~> (id \notin DOMAIN q \/ pc \in {"quit", "crashed"})

\* C24: a key pressed while the help pad is shown changes nothing but the help pad's
\* offset, the pending-g flag and the pad that is shown: the records, the saved
\* snapshot, the table of processes and the row and offset of the stream list stay as
\* they were, and the event loop goes on, whatever the number of records shown
C24_HelpFrame ==
    [][(pc = "select" /\ current_pad = "help" /\ lastOp'.op \in KeyOps)
         => /\ pc' = "reap"
            /\ UNCHANGED <<streams, filtered_streams, aliased, rec, max_id, filter,
                           no_streams, no_stream_shown, store, q, row, padLines>>
            /\ offsets'.streams = offsets.streams]_vars

\* C25: while the program runs, every id that has a running process in the table is the
\* id of exactly one record of all_streams
C25_TableIdsAreRecords ==
    Live => \A id \in DOMAIN q :
                q[id] = "running"
                  => Cardinality({i \in 1..Len(streams) : rec[streams[i]].id = id}) = 1
====
